---- MODULE Spec2Model ----
(* Model of mining/steam_miner.py: the SteamMiner harvest loop, its cursor   *)
(* file seq_num.txt, the output file of match ids and the validity filter.   *)
EXTENDS Integers, Sequences, FiniteSets, TLC

VARIABLES
    file,         \* seq_num.txt: [exists, content], content a sequence of characters
    out_file,     \* the output file: the match ids written, one per line
    server,       \* the provider's match history, ascending match_seq_num
    pc,           \* position of the process: idle, loop, fetch, process, done, raised, killed
    exc,          \* the exception that left the process, [type, line]
    seq_num,      \* self.seq_num
    games_number, \* self.games_number
    chunks,       \* run(): chunks
    remainder,    \* run(): remainder
    i,            \* run(): loop index of the for over range(chunks + 1)
    url,          \* run(): url, [start, requested], both decimal strings
    tries,        \* get_response(): attempts of the call under way that have failed
    response,     \* run(): matches of response_json not yet processed
    run,          \* history: number of processes started so far
    requests,     \* history: the calls of get_response of this run, [i, limit]
    seen,         \* history: the matches this run processed, in order
    prevSeen,     \* history: the matches the run before this one processed
    prevStart,    \* history: the cursor the run before this one loaded
    prevSaved,    \* history: the run before this one returned, its cursor saved
    startSeq,     \* history: the cursor the current run loaded
    sinkAtStart,  \* history: out_file as the current run found it
    afterLastOk,  \* history: seq_num after the last batch processed whole in this run
    exhausted,    \* history: get_response returned None in this run
    failed,       \* history: some fetch attempt of this run failed
    emptyAt,      \* history: loop index of the first empty successful response, or -1
    asked,        \* history: the number_of_games the current run was started with
    issued        \* history: the sum of matches_requested over the requests of this run

vars == <<file, out_file, server, pc, exc, seq_num, games_number, chunks, remainder, i,
          url, tries, response, run, requests, seen, prevSeen, prevStart, prevSaved,
          startSeq, sinkAtStart, afterLastOk, exhausted, failed, emptyAt,
          asked, issued>>

hist == <<run, requests, seen, prevSeen, prevStart, prevSaved, startSeq, sinkAtStart,
          afterLastOk, exhausted, failed, emptyAt, asked, issued>>

----------------------------------------------------------------------------
(* Bounds of the model *)

MaxRuns == 2

----------------------------------------------------------------------------
(* Program constants *)

MIN_DURATION == 1200

NUM_GAME_LIMIT == 100000 * 100

CHUNK == 100

max_try == 10

----------------------------------------------------------------------------
(* str() and int(): decimal text of an integer and back *)

Digits == <<"0", "1", "2", "3", "4", "5", "6", "7", "8", "9">>

Whitespace == {" ", "\n"}

RECURSIVE NatStr(_)
NatStr(n) ==
    IF n < 10 THEN <<Digits[n + 1]>>
    ELSE NatStr(n \div 10) \o <<Digits[(n % 10) + 1]>>

str(n) == IF n < 0 THEN <<"-">> \o NatStr(-n) ELSE NatStr(n)

DigitValue(c) == (CHOOSE d \in 1..10 : Digits[d] = c) - 1

IsDigit(c) == \E d \in 1..10 : Digits[d] = c

RECURSIVE DigitsValue(_)
DigitsValue(s) ==
    IF s = <<>> THEN 0
    ELSE 10 * DigitsValue(SubSeq(s, 1, Len(s) - 1)) + DigitValue(s[Len(s)])

RECURSIVE LStrip(_)
LStrip(s) ==
    IF s # <<>> /\ Head(s) \in Whitespace THEN LStrip(Tail(s)) ELSE s

RECURSIVE RStrip(_)
RStrip(s) ==
    IF s # <<>> /\ s[Len(s)] \in Whitespace THEN RStrip(SubSeq(s, 1, Len(s) - 1)) ELSE s

\* int(text): [ok, val]; ok = FALSE is ValueError
int(text) ==
    LET t == RStrip(LStrip(text))
        signed == t # <<>> /\ Head(t) \in {"-", "+"}
        body == IF signed THEN Tail(t) ELSE t
        good == body # <<>> /\ \A k \in 1..Len(body) : IsDigit(body[k])
    IN  IF ~good THEN [ok |-> FALSE, val |-> 0]
        ELSE [ok |-> TRUE,
              val |-> IF signed /\ Head(t) = "-" THEN -DigitsValue(body)
                      ELSE DigitsValue(body)]

\* f.readline(): the text up to and including the first newline
RECURSIVE readline(_)
readline(content) ==
    IF content = <<>> THEN <<>>
    ELSE IF Head(content) = "\n" THEN <<"\n">>
    ELSE <<Head(content)>> \o readline(Tail(content))

----------------------------------------------------------------------------
(* The validity filter *)

\* player.get('leaver_status', 1)
LeaverStatus(player) ==
    IF "leaver_status" \in DOMAIN player THEN player.leaver_status ELSE 1

\* valid(match_json): [raised, value]; raised = TRUE is KeyError
valid(match_json) ==
    IF "players" \notin DOMAIN match_json THEN [raised |-> TRUE, value |-> FALSE]
    ELSE IF \E k \in 1..Len(match_json.players) :
                LeaverStatus(match_json.players[k]) = 1
         THEN [raised |-> FALSE, value |-> FALSE]
    ELSE IF "duration" \notin DOMAIN match_json THEN [raised |-> TRUE, value |-> FALSE]
    ELSE IF match_json.duration < MIN_DURATION THEN [raised |-> FALSE, value |-> FALSE]
    ELSE IF "human_players" \notin DOMAIN match_json THEN [raised |-> TRUE, value |-> FALSE]
    ELSE IF match_json.human_players # 10 THEN [raised |-> FALSE, value |-> FALSE]
    ELSE IF "game_mode" \notin DOMAIN match_json THEN [raised |-> TRUE, value |-> FALSE]
    ELSE IF match_json.game_mode # 22 THEN [raised |-> FALSE, value |-> FALSE]
    ELSE [raised |-> FALSE, value |-> TRUE]

----------------------------------------------------------------------------
(* The provider: GetMatchHistoryBySequenceNum *)

Player(status) == [leaver_status |-> status]

Match(id, seq, players, duration, human, mode) ==
    [match_id |-> id, match_seq_num |-> seq, players |-> players,
     duration |-> duration, human_players |-> human, game_mode |-> mode]

MatchWithoutPlayers(id, seq) ==
    [match_id |-> id, match_seq_num |-> seq,
     duration |-> 1500, human_players |-> 10, game_mode |-> 22]

Stayed == <<Player(0), Player(0)>>

OneLeft == <<Player(0), Player(1)>>

\* The histories the provider may hold, each ascending in match_seq_num
Histories ==
    { <<>>,
      << Match(501, 10, OneLeft, 1500, 10, 22),
         Match(502, 11, Stayed, 1200, 10, 22),
         Match(503, 12, Stayed, 2400, 10, 22) >>,
      << Match(601, 10, Stayed, 1300, 10, 22),
         Match(602, 12, Stayed, 1199, 10, 22),
         Match(603, 13, Stayed, 1800, 10, 22),
         Match(604, 15, Stayed, 1800, 10, 1),
         Match(605, 16, Stayed, 1800, 10, 22) >>,
      << Match(701, 11, Stayed, 1500, 10, 22),
         MatchWithoutPlayers(702, 12),
         Match(703, 14, Stayed, 1500, 9, 22) >> }

\* The states seq_num.txt may be found in
CursorFiles ==
    { [exists |-> FALSE, content |-> <<>>],
      [exists |-> TRUE, content |-> <<>>],
      [exists |-> TRUE, content |-> <<"n", "/", "a">>],
      [exists |-> TRUE, content |-> <<"1", "0", "\n">>],
      [exists |-> TRUE, content |-> <<"1", "2">>] }

\* The output file as the first run may find it
OutFiles == { <<str(499)>> }

\* The number_of_games arguments tried
Targets == {-50, 0, 2, 102, 200, 250}

\* The matches the provider holds at or after a sequence number
FromSeq(history, start) ==
    SelectSeq(history, LAMBDA m : m.match_seq_num >= start)

\* The most matches one call returns: matches_requested, 100 when it is out of range
ServerCap(requested) ==
    IF requested \in 1..CHUNK THEN requested ELSE CHUNK

\* The responses the provider may give to a request: a prefix of the matches from
\* start_at_match_seq_num on, of at most the requested length
Responses(history, u) ==
    LET avail == FromSeq(history, int(u.start).val)
        cap == ServerCap(int(u.requested).val)
        most == IF Len(avail) < cap THEN Len(avail) ELSE cap
    IN  { SubSeq(avail, 1, k) : k \in 0..most }

----------------------------------------------------------------------------
(* SteamMiner *)

\* Variant of Min: the first argument as it is
Unclamped(a, b) == a

Min(a, b) == IF a < b THEN a ELSE b

\* Variant of get_starting_match_sequence_number: a file without an integer counts as 0
StartingNumberOrZero(f) ==
    IF ~f.exists THEN [raised |-> TRUE, type |-> "IOError", line |-> 60, val |-> 0]
    ELSE [raised |-> FALSE, type |-> "", line |-> 0, val |-> int(readline(f.content)).val]

\* get_starting_match_sequence_number(): [raised, type, line, val]
get_starting_match_sequence_number(f) ==
    IF ~f.exists THEN [raised |-> TRUE, type |-> "IOError", line |-> 60, val |-> 0]
    ELSE LET num == int(readline(f.content))
         IN  IF ~num.ok
             THEN [raised |-> TRUE, type |-> "ValueError", line |-> 61, val |-> 0]
             ELSE [raised |-> FALSE, type |-> "", line |-> 0, val |-> num.val]

\* save_sequence_number(): the file as open(.., "w") and f.write leave it
save_sequence_number(n) == [exists |-> TRUE, content |-> str(n)]

\* Variant of get_url: the url starts one past the cursor
get_url_past_cursor(n, matches_requested) ==
    [start |-> str(n + 1), requested |-> str(matches_requested)]

\* get_url(matches_requested): the two parameters the request carries
get_url(n, matches_requested) ==
    [start |-> str(n), requested |-> str(matches_requested)]

\* run(): the size asked of batch k
BatchSize(k, nchunks, rem) == IF k = nchunks THEN rem ELSE CHUNK

\* Variant of NextSeqNum: the cursor stays on the match just processed
NextSeqNumSame(match) == match.match_seq_num

\* Variant of NextSeqNum: the cursor steps back from the match just processed
NextSeqNumBefore(match) == match.match_seq_num - 1

\* run(): the cursor after a match is processed
NextSeqNum(match) == match.match_seq_num + 1

\* Variant of WriteMatch: the id is written whatever valid() says
WriteMatchAlways(out, match, ok) == Append(out, str(match.match_id))

\* run(): out_file.write(str(match_id) + "\n") when the match is valid
WriteMatch(out, match, ok) == IF ok THEN Append(out, str(match.match_id)) ELSE out

\* Variant of CanTry: one attempt too many
CanTryOffByOne(n) == n <= max_try

\* get_response(): the for over xrange(max_try) has attempts left
CanTry(n) == n < max_try

NoExc == [type |-> "", line |-> 0]

Init ==
    /\ file \in CursorFiles
    /\ out_file \in OutFiles
    /\ server \in Histories
    /\ pc = "idle"
    /\ exc = NoExc
    /\ seq_num = 0
    /\ games_number = 0
    /\ chunks = 0
    /\ remainder = 0
    /\ i = 0
    /\ url = get_url(0, 0)
    /\ tries = 0
    /\ response = <<>>
    /\ run = 0
    /\ requests = <<>>
    /\ seen = <<>>
    /\ prevSeen = <<>>
    /\ prevStart = 0
    /\ prevSaved = FALSE
    /\ startSeq = 0
    /\ sinkAtStart = out_file
    /\ afterLastOk = 0
    /\ exhausted = FALSE
    /\ failed = FALSE
    /\ emptyAt = -1
    /\ asked = 0
    /\ issued = 0

Stopped == pc \in {"idle", "done", "raised", "killed"}

\* main(): SteamMiner(games_number, out_file, api_key) and the head of run()
Start(number_of_games) ==
    /\ Stopped
    /\ run < MaxRuns
    /\ LET num == get_starting_match_sequence_number(file)
           games == Min(number_of_games, NUM_GAME_LIMIT)
       IN  /\ ~num.raised
           /\ games_number' = games
           /\ seq_num' = num.val
           /\ chunks' = games \div CHUNK
           /\ remainder' = games - (games \div CHUNK) * CHUNK
           /\ startSeq' = num.val
           /\ afterLastOk' = num.val
    /\ i' = 0
    /\ pc' = "loop"
    /\ exc' = NoExc
    /\ tries' = 0
    /\ response' = <<>>
    /\ run' = run + 1
    /\ sinkAtStart' = out_file
    /\ exhausted' = FALSE
    /\ failed' = FALSE
    /\ emptyAt' = -1
    /\ asked' = number_of_games
    /\ issued' = 0
    /\ url' = get_url(0, 0)
    /\ requests' = <<>>
    /\ seen' = <<>>
    /\ prevSeen' = seen
    /\ prevStart' = startSeq
    /\ prevSaved' = (pc = "done")
    /\ UNCHANGED <<file, out_file, server>>

\* SteamMiner.__init__ raises: seq_num.txt is missing or holds no integer
StartRaises(number_of_games) ==
    /\ Stopped
    /\ run < MaxRuns
    /\ LET num == get_starting_match_sequence_number(file)
       IN  /\ num.raised
           /\ exc' = [type |-> num.type, line |-> num.line]
    /\ games_number' = Min(number_of_games, NUM_GAME_LIMIT)
    /\ pc' = "raised"
    /\ run' = run + 1
    /\ sinkAtStart' = out_file
    /\ exhausted' = FALSE
    /\ failed' = FALSE
    /\ emptyAt' = -1
    /\ asked' = number_of_games
    /\ issued' = 0
    /\ seq_num' = 0
    /\ chunks' = 0
    /\ remainder' = 0
    /\ i' = 0
    /\ url' = get_url(0, 0)
    /\ tries' = 0
    /\ response' = <<>>
    /\ startSeq' = 0
    /\ afterLastOk' = 0
    /\ requests' = <<>>
    /\ seen' = <<>>
    /\ prevSeen' = seen
    /\ prevStart' = startSeq
    /\ prevSaved' = (pc = "done")
    /\ UNCHANGED <<file, out_file, server>>

\* run(): the next iteration of the for loop builds the url and calls get_response
NextBatch ==
    /\ pc = "loop"
    /\ i < chunks + 1
    /\ url' = get_url(seq_num, BatchSize(i, chunks, remainder))
    /\ tries' = 0
    /\ pc' = "fetch"
    /\ requests' = Append(requests, [i |-> i, limit |-> int(url'.requested).val])
    /\ issued' = issued + int(url'.requested).val
    /\ UNCHANGED <<asked, file, out_file, server, exc, seq_num, games_number, chunks,
                   remainder, i, response, run, seen, prevSeen, prevStart, prevSaved,
                   startSeq, sinkAtStart, afterLastOk, exhausted, failed, emptyAt>>

\* run(): the for loop is exhausted, save_sequence_number() and return
LoopEnds ==
    /\ pc = "loop"
    /\ ~(i < chunks + 1)
    /\ file' = save_sequence_number(seq_num)
    /\ pc' = "done"
    /\ UNCHANGED <<asked, issued, out_file, server, exc, seq_num, games_number, chunks,
                   remainder, i, url, tries, response, run, requests, seen, prevSeen,
                   prevStart, prevSaved, startSeq, sinkAtStart, afterLastOk, exhausted,
                   failed, emptyAt>>

\* get_response(): urllib.urlopen raises IOError, which nothing catches
UrlopenRaises ==
    /\ pc = "fetch"
    /\ CanTry(tries)
    /\ pc' = "raised"
    /\ exc' = [type |-> "IOError", line |-> 83]
    /\ failed' = TRUE
    /\ tries' = 0
    /\ UNCHANGED <<asked, issued, file, out_file, server, seq_num, games_number, chunks,
                   remainder, i, url, response, run, requests, seen, prevSeen, prevStart,
                   prevSaved, startSeq, sinkAtStart, afterLastOk, exhausted, emptyAt>>

\* Variant of CannotParse: the failed attempt moves the cursor on
CannotParseSkips ==
    /\ pc = "fetch"
    /\ CanTry(tries)
    /\ tries' = tries + 1
    /\ failed' = TRUE
    /\ seq_num' = seq_num + 1
    /\ UNCHANGED <<asked, issued, file, out_file, server, pc, exc, games_number,
                   chunks, remainder, i, url, response, run, requests, seen, prevSeen,
                   prevStart, prevSaved, startSeq, sinkAtStart, afterLastOk, exhausted,
                   emptyAt>>

\* get_response(): json.load raises ValueError, sleep and continue
CannotParse ==
    /\ pc = "fetch"
    /\ CanTry(tries)
    /\ tries' = tries + 1
    /\ failed' = TRUE
    /\ UNCHANGED <<asked, issued, file, out_file, server, pc, exc, seq_num, games_number,
                   chunks, remainder, i, url, response, run, requests, seen, prevSeen,
                   prevStart, prevSaved, startSeq, sinkAtStart, afterLastOk, exhausted,
                   emptyAt>>

\* Variant of InvalidJson: the count of tries starts over
InvalidJsonStartsOver ==
    /\ pc = "fetch"
    /\ CanTry(tries)
    /\ tries' = 0
    /\ failed' = TRUE
    /\ UNCHANGED <<asked, issued, file, out_file, server, pc, exc, seq_num, games_number,
                   chunks, remainder, i, url, response, run, requests, seen, prevSeen,
                   prevStart, prevSaved, startSeq, sinkAtStart, afterLastOk, exhausted,
                   emptyAt>>

\* get_response(): the json has no 'result', sleep and continue
InvalidJson ==
    /\ pc = "fetch"
    /\ CanTry(tries)
    /\ tries' = tries + 1
    /\ failed' = TRUE
    /\ UNCHANGED <<asked, issued, file, out_file, server, pc, exc, seq_num, games_number,
                   chunks, remainder, i, url, response, run, requests, seen, prevSeen,
                   prevStart, prevSaved, startSeq, sinkAtStart, afterLastOk, exhausted,
                   emptyAt>>

\* get_response(): the body is json that is no container (null, a number), and
\* 'result' not in games_json raises TypeError
NotAContainer ==
    /\ pc = "fetch"
    /\ CanTry(tries)
    /\ pc' = "raised"
    /\ exc' = [type |-> "TypeError", line |-> 92]
    /\ failed' = TRUE
    /\ tries' = 0
    /\ UNCHANGED <<asked, issued, file, out_file, server, seq_num, games_number, chunks,
                   remainder, i, url, response, run, requests, seen, prevSeen, prevStart,
                   prevSaved, startSeq, sinkAtStart, afterLastOk, exhausted, emptyAt>>

\* get_response() returns a json with 'result', whose 'matches' run() starts on
ResponseArrives ==
    /\ pc = "fetch"
    /\ CanTry(tries)
    /\ \E matches \in Responses(server, url) :
        /\ response' = matches
        /\ emptyAt' = IF matches = <<>> /\ emptyAt = -1 THEN i ELSE emptyAt
    /\ pc' = "process"
    /\ tries' = 0
    /\ UNCHANGED <<asked, issued, file, out_file, server, exc, seq_num, games_number,
                   chunks, remainder, i, url, run, requests, seen, prevSeen, prevStart,
                   prevSaved, startSeq, sinkAtStart, afterLastOk, exhausted, failed>>

\* get_response() returns a json whose 'result' has no 'matches' (the provider's
\* error status), and response_json['result']['matches'] raises KeyError
ResultWithoutMatches ==
    /\ pc = "fetch"
    /\ CanTry(tries)
    /\ pc' = "raised"
    /\ exc' = [type |-> "KeyError", line |-> 116]
    /\ failed' = TRUE
    /\ tries' = 0
    /\ UNCHANGED <<asked, issued, file, out_file, server, seq_num, games_number, chunks,
                   remainder, i, url, response, run, requests, seen, prevSeen, prevStart,
                   prevSaved, startSeq, sinkAtStart, afterLastOk, exhausted, emptyAt>>

\* Variant of GivesUp: run() returns where it should break, and nothing is saved
GivesUpNoSave ==
    /\ pc = "fetch"
    /\ ~CanTry(tries)
    /\ pc' = "done"
    /\ exhausted' = TRUE
    /\ tries' = 0
    /\ UNCHANGED <<asked, issued, file, out_file, server, exc, seq_num, games_number,
                   chunks, remainder, i, url, response, run, requests, seen, prevSeen,
                   prevStart, prevSaved, startSeq, sinkAtStart, afterLastOk, failed,
                   emptyAt>>

\* get_response() returns None after max_try failures: break, save_sequence_number()
GivesUp ==
    /\ pc = "fetch"
    /\ ~CanTry(tries)
    /\ file' = save_sequence_number(seq_num)
    /\ pc' = "done"
    /\ exhausted' = TRUE
    /\ tries' = 0
    /\ UNCHANGED <<asked, issued, out_file, server, exc, seq_num, games_number, chunks,
                   remainder, i, url, response, run, requests, seen, prevSeen, prevStart,
                   prevSaved, startSeq, sinkAtStart, afterLastOk, failed, emptyAt>>

\* Variant of ProcessMatch: the cursor moves only past a valid match
ProcessMatchValidOnly ==
    /\ pc = "process"
    /\ response # <<>>
    /\ LET match == Head(response)
           ok == valid(match)
       IN  /\ ~ok.raised
           /\ out_file' = WriteMatch(out_file, match, ok.value)
           /\ seq_num' = IF ok.value THEN NextSeqNum(match) ELSE seq_num
           /\ seen' = Append(seen, match)
    /\ response' = Tail(response)
    /\ UNCHANGED <<asked, issued, file, server, pc, exc, games_number, chunks, remainder, i,
                   url, tries, run, requests, prevSeen, prevStart, prevSaved, startSeq,
                   sinkAtStart, afterLastOk, exhausted, failed, emptyAt>>

\* run(): one iteration of the for over the matches
ProcessMatch ==
    /\ pc = "process"
    /\ response # <<>>
    /\ LET match == Head(response)
           ok == valid(match)
       IN  /\ ~ok.raised
           /\ out_file' = WriteMatch(out_file, match, ok.value)
           /\ seq_num' = NextSeqNum(match)
           /\ seen' = Append(seen, match)
    /\ response' = Tail(response)
    /\ UNCHANGED <<asked, issued, file, server, pc, exc, games_number, chunks, remainder, i,
                   url, tries, run, requests, prevSeen, prevStart, prevSaved, startSeq,
                   sinkAtStart, afterLastOk, exhausted, failed, emptyAt>>

\* run(): valid(match) raises KeyError on a match without one of its fields
ProcessMatchRaises ==
    /\ pc = "process"
    /\ response # <<>>
    /\ valid(Head(response)).raised
    /\ pc' = "raised"
    /\ exc' = [type |-> "KeyError", line |-> 118]
    /\ UNCHANGED <<asked, issued, file, out_file, server, seq_num, games_number, chunks,
                   remainder, i, url, tries, response, run, requests, seen, prevSeen,
                   prevStart, prevSaved, startSeq, sinkAtStart, afterLastOk, exhausted,
                   failed, emptyAt>>

\* Variant of BatchDone: the cursor is saved after every batch
BatchDoneSaves ==
    /\ pc = "process"
    /\ response = <<>>
    /\ i' = i + 1
    /\ pc' = "loop"
    /\ afterLastOk' = seq_num
    /\ file' = save_sequence_number(seq_num)
    /\ UNCHANGED <<asked, issued, out_file, server, exc, seq_num, games_number, chunks,
                   remainder, url, tries, response, run, requests, seen, prevSeen,
                   prevStart, prevSaved, startSeq, sinkAtStart, exhausted, failed, emptyAt>>

\* Variant of BatchDone: a response without matches ends the run
BatchDoneStopsOnEmpty ==
    /\ pc = "process"
    /\ response = <<>>
    /\ IF seq_num = int(url.start).val
       THEN /\ file' = save_sequence_number(seq_num)
            /\ pc' = "done"
            /\ UNCHANGED <<asked, issued, i, afterLastOk>>
       ELSE /\ i' = i + 1
            /\ pc' = "loop"
            /\ afterLastOk' = seq_num
            /\ UNCHANGED file
    /\ UNCHANGED <<out_file, server, exc, seq_num, games_number, chunks, remainder, url,
                   tries, response, run, requests, seen, prevSeen, prevStart, prevSaved,
                   startSeq, sinkAtStart, exhausted, failed, emptyAt>>

\* run(): the matches of the response are processed, next iteration
BatchDone ==
    /\ pc = "process"
    /\ response = <<>>
    /\ i' = i + 1
    /\ pc' = "loop"
    /\ afterLastOk' = seq_num
    /\ UNCHANGED <<asked, issued, file, out_file, server, exc, seq_num, games_number,
                   chunks, remainder, url, tries, response, run, requests, seen, prevSeen,
                   prevStart, prevSaved, startSeq, sinkAtStart, exhausted, failed, emptyAt>>

\* The process is killed while run() is under way
Kill ==
    /\ pc \in {"loop", "fetch", "process"}
    /\ pc' = "killed"
    /\ UNCHANGED <<file, out_file, server, exc, seq_num, games_number, chunks, remainder, i,
                   url, tries, response, hist>>

Next ==
    \/ \E n \in Targets : Start(n)
    \/ \E n \in Targets : StartRaises(n)
    \/ NextBatch
    \/ LoopEnds
    \/ UrlopenRaises
    \/ CannotParse
    \/ InvalidJson
    \/ NotAContainer
    \/ ResponseArrives
    \/ ResultWithoutMatches
    \/ GivesUp
    \/ ProcessMatch
    \/ ProcessMatchRaises
    \/ BatchDone
    \/ Kill

Spec == Init /\ [][Next]_vars

----------------------------------------------------------------------------
(* The validity filter on its own: run() has one match of a response to process *)

\* The players a match may list: statuses 0 to 3, and one without leaver_status
PlayerKinds == { Player(0), Player(1), Player(2), Player(3), [account_id |-> 7] }

PlayerLists ==
    { <<>> } \cup { <<p>> : p \in PlayerKinds }
             \cup { <<p, q>> : p \in PlayerKinds, q \in PlayerKinds }

\* The matches valid() is tried on: around each threshold, with and without 'players'
TestMatches ==
    { Match(900, 10, ps, d, h, g) :
        ps \in PlayerLists, d \in {1199, 1200, 1201}, h \in {9, 10}, g \in {1, 22} }
    \cup { [match_id |-> 900, match_seq_num |-> 10,
            duration |-> d, human_players |-> h, game_mode |-> g] :
              d \in {1199, 1200, 1201}, h \in {9, 10}, g \in {1, 22} }

\* run() was started with seq_num.txt at 10 for 2 games, and the first response
\* holds one match
InitValid ==
    /\ \E m \in TestMatches : /\ server = <<m>>
                              /\ response = <<m>>
    /\ file = [exists |-> TRUE, content |-> str(10)]
    /\ out_file \in OutFiles
    /\ pc = "process"
    /\ exc = NoExc
    /\ seq_num = 10
    /\ games_number = 2
    /\ chunks = 0
    /\ remainder = 2
    /\ i = 0
    /\ url = get_url(10, 2)
    /\ tries = 0
    /\ run = 1
    /\ requests = <<[i |-> 0, limit |-> 2]>>
    /\ seen = <<>>
    /\ prevSeen = <<>>
    /\ prevStart = 0
    /\ prevSaved = FALSE
    /\ startSeq = 10
    /\ sinkAtStart = out_file
    /\ afterLastOk = 10
    /\ exhausted = FALSE
    /\ failed = FALSE
    /\ emptyAt = -1
    /\ asked = 2
    /\ issued = 2

NextValid ==
    \/ ProcessMatch
    \/ ProcessMatchRaises

SpecValid == InitValid /\ [][NextValid]_vars

----------------------------------------------------------------------------
(* The batch plan on its own: the provider holds no match and no fetch fails *)

\* The number_of_games arguments the plan is tried on, below and above NUM_GAME_LIMIT
PlanTargets == {0, 1, 99, 100, 101, 250, 1000, NUM_GAME_LIMIT + 50}

InitPlan ==
    /\ Init
    /\ server = <<>>
    /\ file = [exists |-> TRUE, content |-> str(12)]

\* run(): one iteration of the for loop whose response holds no match: get_url,
\* get_response at the first attempt, an empty inner for. Of the requests only
\* their sum is kept.
EmptyBatch ==
    /\ pc = "loop"
    /\ i < chunks + 1
    /\ Responses(server, get_url(seq_num, BatchSize(i, chunks, remainder))) = {<<>>}
    /\ url' = get_url(seq_num, BatchSize(i, chunks, remainder))
    /\ issued' = issued + int(url'.requested).val
    /\ i' = i + 1
    /\ UNCHANGED <<file, out_file, server, pc, exc, seq_num, games_number, chunks,
                   remainder, tries, response, run, requests, seen, prevSeen, prevStart,
                   prevSaved, startSeq, sinkAtStart, afterLastOk, exhausted, failed,
                   emptyAt, asked>>

NextPlan ==
    \/ \E n \in PlanTargets : Start(n)
    \/ EmptyBatch
    \/ LoopEnds

SpecPlan == InitPlan /\ [][NextPlan]_vars

(* The run under a scheduler that keeps the process running *)

\* A step of run() and of what it calls: every fetch returns, matches or a
\* failure, and the process goes on to its next statement
RunStep ==
    \/ NextBatch
    \/ LoopEnds
    \/ UrlopenRaises
    \/ CannotParse
    \/ InvalidJson
    \/ NotAContainer
    \/ ResponseArrives
    \/ ResultWithoutMatches
    \/ GivesUp
    \/ ProcessMatch
    \/ ProcessMatchRaises
    \/ BatchDone

FairSpec == Spec /\ WF_vars(RunStep)

----------------------------------------------------------------------------
(* Properties *)

\* The cursor the next process would load from seq_num.txt
FileCursor == get_starting_match_sequence_number(file)

\* The cursor a file holds, 0 when none can be loaded from it
SavedCursor(f) == get_starting_match_sequence_number(f).val

\* The start_at_match_seq_num of the request under way
UrlStart == int(url.start).val

SeqNums(matches) == { matches[k].match_seq_num : k \in 1..Len(matches) }

SeqToSet(q) == { q[k] : k \in 1..Len(q) }

\* C1: whenever run() returns, after all its batches or early, seq_num.txt holds
\* exactly the final in-memory cursor: loading it gives seq_num back.
C1_SavedOnReturn ==
    pc = "done" => /\ ~FileCursor.raised
                   /\ FileCursor.val = seq_num

\* C1 witness: a run that stopped early on an exhausted batch, after it had advanced
C1_StoppedEarlyAfterAdvance ==
    pc = "done" /\ exhausted /\ seq_num > startSeq

\* C2: when a run loads the cursor the run before it saved, each of its requests
\* starts strictly after every sequence number the earlier run saw, it processes no
\* match at or below them, and no match of the provider between the earlier run's
\* start and a request's start is left unprocessed by the two runs.
C2_Resumption ==
    (run >= 2 /\ prevSaved /\ pc \in {"loop", "fetch", "process", "done"}) =>
        /\ \A n \in SeqNums(prevSeen) : startSeq > n
        /\ pc = "fetch" => \A n \in SeqNums(prevSeen) : UrlStart > n
        /\ \A n \in SeqNums(seen) : \A p \in SeqNums(prevSeen) : n > p
        /\ \A n \in SeqNums(FromSeq(server, prevStart)) :
              n < (IF pc = "fetch" THEN UrlStart ELSE startSeq)
                  => n \in SeqNums(prevSeen) \cup SeqNums(seen)

\* C2 witness: the second of two runs, both of which processed matches, is fetching
C2_SecondRunFetches ==
    run >= 2 /\ prevSaved /\ prevSeen # <<>> /\ seen # <<>> /\ pc = "fetch"

\* C3: no failure of a fetch (transport failure, undecodable body, missing field)
\* leaves run() as an exception: it is retried and the run ends with the cursor saved.
C3_FetchFailuresHandled ==
    pc = "raised" => exc.line \notin {83, 92, 116}

\* C4: a batch gets at most max_try attempts; when all of them fail the run stops:
\* the failed batch is the last one requested and the cursor saved is the cursor
\* after the last batch that was processed (the one loaded when there was none).
C4_RetryCeiling ==
    /\ tries <= max_try
    /\ (pc = "done" /\ exhausted) =>
          /\ Len(requests) = i + 1
          /\ \A k \in 1..Len(requests) : requests[k].i <= i
          /\ ~FileCursor.raised
          /\ FileCursor.val = afterLastOk

\* C4 witness: a batch that is not the last planned one failed max_try times, after
\* an earlier batch had advanced the cursor
C4_GaveUpMidPlan ==
    pc = "done" /\ exhausted /\ i < chunks /\ i > 0 /\ afterLastOk > startSeq

\* C5 as claimed: once a fetch has returned an empty list of matches, no request for
\* a later batch is issued in that run.
C5_StopsOnEmpty ==
    emptyAt # -1 => \A k \in 1..Len(requests) : requests[k].i <= emptyAt

\* C5 as amended: an empty list of matches does not stop the run. The batch leaves
\* the cursor where the request started, and a run that returns without having
\* exhausted a batch has requested every planned batch and saved its cursor.
C5_EmptyGoesOn ==
    /\ (pc = "process" /\ emptyAt = i) => seq_num = UrlStart
    /\ (pc = "done" /\ emptyAt # -1 /\ ~exhausted) =>
          /\ Len(requests) = chunks + 1
          /\ ~FileCursor.raised
          /\ FileCursor.val = seq_num

\* C5 witness: a run returned whose empty response came before its last planned batch
C5_EmptyBeforeLastBatch ==
    pc = "done" /\ ~exhausted /\ emptyAt # -1 /\ emptyAt < chunks

\* C6 as claimed: neither the in-memory cursor nor the saved one ever gets smaller,
\* across matches, batches and runs.
C6_NeverDecreases ==
    [][seq_num' >= seq_num /\ SavedCursor(file') >= SavedCursor(file)]_vars

\* C6 as amended: the saved cursor never gets smaller; the in-memory cursor never
\* gets smaller within a run, nor from a run that returned to the run after it.
C6_SavedNeverDecreases ==
    [][/\ SavedCursor(file') >= SavedCursor(file)
       /\ (run' = run \/ pc = "done") => seq_num' >= seq_num]_vars

\* C6 witness: a run processed matches and ended without saving, and the run after
\* it advanced its own cursor and saved it
C6_AdvanceAfterLostRun ==
    run >= 2 /\ ~prevSaved /\ prevSeen # <<>> /\ pc = "done" /\ seq_num > startSeq

RECURSIVE MaxOf(_)
MaxOf(S) ==
    LET x == CHOOSE y \in S : TRUE
    IN  IF S = {x} THEN x
        ELSE LET m == MaxOf(S \ {x}) IN IF x > m THEN x ELSE m

\* C7: whatever way the matches a run receives are split into batches, once it has
\* processed some its cursor is the largest match_seq_num among them plus one, and
\* that is what it saves.
C7_CursorIsMaxPlusOne ==
    (seen # <<>> /\ pc \in {"loop", "fetch", "process", "done"}) =>
        /\ seq_num = MaxOf(SeqNums(seen)) + 1
        /\ pc = "done" => FileCursor.val = MaxOf(SeqNums(seen)) + 1

\* C7 witness: a run without a failure returned after at least two batches, none of
\* them empty, that delivered at least three matches, one of them not valid
C7_SeveralBatches ==
    /\ pc = "done" /\ ~failed /\ emptyAt = -1
    /\ Len(requests) >= 2 /\ Len(seen) >= 3
    /\ \E k \in 1..Len(seen) : ~valid(seen[k]).value

\* The plan C8 states for a target: full batches of 100, then the remainder if any
RECURSIVE Repeat(_, _)
Repeat(x, n) == IF n <= 0 THEN <<>> ELSE <<x>> \o Repeat(x, n - 1)

PlannedSizes(target) ==
    Repeat(100, target \div 100)
        \o (IF target % 100 > 0 THEN <<target % 100>> ELSE <<>>)

\* C8: a run in which no fetch failed issues target div 100 requests of size 100 and
\* then, only if target mod 100 > 0, one request of that size.
C8_BatchPlan ==
    (pc = "done" /\ ~failed /\ games_number >= 0) =>
        [k \in 1..Len(requests) |-> requests[k].limit] = PlannedSizes(games_number)

\* C9: every request carries a limit in 1..100.
C9_LimitInRange ==
    \A k \in 1..Len(requests) : requests[k].limit \in 1..100

\* The lines the valid matches among a sequence put in the output file
RECURSIVE AcceptedLines(_)
AcceptedLines(matches) ==
    IF matches = <<>> THEN <<>>
    ELSE (IF valid(Head(matches)).value THEN <<str(Head(matches).match_id)>> ELSE <<>>)
             \o AcceptedLines(Tail(matches))

\* C10: the output file is what the run found in it followed by the ids of the valid
\* matches processed so far, once each, in the order they were returned.
C10_AppendOnly ==
    run >= 1 => out_file = sinkAtStart \o AcceptedLines(seen)

\* C10 witness: matches 10, 11, 12 of which the first has a leaver: the two other ids
\* follow what was in the file, and the cursor is 13
C10_TwoOfThree ==
    /\ pc = "done"
    /\ [k \in 1..Len(seen) |-> seen[k].match_seq_num] = <<10, 11, 12>>
    /\ ~valid(seen[1]).value
    /\ out_file = <<str(499), str(502), str(503)>>
    /\ sinkAtStart = <<str(499)>>
    /\ seq_num = 13

\* The match run() was given, once valid() has been called on it
Judged ==
    IF pc = "raised" THEN server
    ELSE IF pc = "process" /\ response = <<>> THEN seen
    ELSE <<>>

\* The id of the match was written to the output file
Accepted == out_file # sinkAtStart

\* C11: valid() is true exactly when no player left early (every player has the
\* status 0 of a player who did not leave), duration >= 1200, human_players = 10 and
\* game_mode = 22.
C11_FourCriteria ==
    \A m \in SeqToSet(Judged) :
        "players" \in DOMAIN m =>
            /\ pc # "raised"
            /\ Accepted <=>
                  /\ \A k \in 1..Len(m.players) : LeaverStatus(m.players[k]) = 0
                  /\ m.duration >= 1200
                  /\ m.human_players = 10
                  /\ m.game_mode = 22

\* C12: a match with a player whose status is any other code than 0, the one of a
\* player who did not leave, is rejected.
C12_OneStatusAccepted ==
    \A m \in SeqToSet(Judged) :
        ("players" \in DOMAIN m
            /\ \E k \in 1..Len(m.players) : LeaverStatus(m.players[k]) # 0)
        => ~Accepted

\* C13: on a match without 'players', or with an empty players list, valid() does
\* not fail and its result is that of the three other criteria.
C13_NoPlayersNoLeavers ==
    \A m \in SeqToSet(Judged) :
        ("players" \notin DOMAIN m \/ m.players = <<>>) =>
            /\ pc # "raised"
            /\ Accepted <=>
                  (m.duration >= 1200 /\ m.human_players = 10 /\ m.game_mode = 22)

\* C14: while seq_num.txt is missing, empty or holds no integer, every start fails
\* in __init__ (lines 60, 61): no request is issued, no match processed, and the
\* output file and seq_num.txt stay as they were found.
C14_BadCursorFileFailsAtStart ==
    (~file.exists \/ ~int(readline(file.content)).ok) =>
        /\ pc \in {"idle", "raised"}
        /\ pc = "raised" => exc.line \in {60, 61}
        /\ requests = <<>>
        /\ seen = <<>>
        /\ out_file \in OutFiles
        /\ file \in CursorFiles

\* C14 witness: two starts in a row failed on an empty seq_num.txt
C14_EmptyFileFailedTwice ==
    /\ pc = "raised" /\ run = 2
    /\ exc = [type |-> "ValueError", line |-> 61]
    /\ file = [exists |-> TRUE, content |-> <<>>]

CursorAfter(matches) ==
    IF matches = <<>> THEN startSeq ELSE matches[Len(matches)].match_seq_num + 1

\* C17: after each match is processed the cursor is its match_seq_num + 1, valid or
\* not; a request is built from the cursor as it stands, so a batch starts one past
\* the last match of the batch before it, and where the run started or the batch
\* before started when no match came in between.
C17_CursorFollowsLastMatch ==
    pc \in {"loop", "fetch", "process", "done"} =>
        /\ seq_num = CursorAfter(seen)
        /\ pc = "fetch" => UrlStart = CursorAfter(seen)
        /\ pc = "process" =>
              \E k \in 0..Len(seen) : UrlStart = CursorAfter(SubSeq(seen, 1, k))

\* C17 witness: the request of a later batch is under way after a batch whose last
\* match was not valid
C17_RequestAfterInvalidMatch ==
    /\ pc = "fetch" /\ i >= 1 /\ seen # <<>>
    /\ ~valid(seen[Len(seen)]).value
    /\ UrlStart = seen[Len(seen)].match_seq_num + 1

\* C18: while get_response is trying, no step changes the url (cursor and limit of
\* the request), the cursor in memory or the output file; seq_num.txt changes only
\* with the step that ends the run once the tries are used up, and a failed
\* attempt changes nothing but the count of tries.
C18_FailedAttemptNoEffect ==
    [][pc = "fetch" =>
          /\ url' = url /\ seq_num' = seq_num /\ out_file' = out_file
          /\ file' # file => (pc' = "done" /\ ~CanTry(tries))
          /\ tries' > tries =>
                (pc' = "fetch" /\ file' = file /\ i' = i /\ response' = response)]_vars

\* C18 witness: the third attempt of a later batch, after matches were written
C18_ThirdAttemptOfLaterBatch ==
    /\ pc = "fetch" /\ tries = 2 /\ i >= 1
    /\ seen # <<>> /\ out_file # sinkAtStart
    /\ UrlStart = seq_num /\ seq_num # startSeq

\* C19: a run that has started comes to its end, whatever the fetches return (the
\* process is stopped again and again: no run goes on for ever); it
\* asks for at most number_of_games div 100 + 1 batches, a call of get_response
\* counts at most max_try failed attempts, and an attempt is made only while fewer
\* than max_try have failed, so at most max_try attempts for a batch.
C19_RunTerminates ==
    /\ [](pc \in {"loop", "fetch", "process", "done"} =>
            /\ Len(requests) <= (IF asked \div 100 + 1 > 0 THEN asked \div 100 + 1 ELSE 0)
            /\ tries <= max_try)
    /\ [][pc = "fetch" /\ (tries' > tries \/ pc' \in {"process", "raised"})
             => tries < max_try]_vars
    /\ []<>Stopped

\* C19 witness: a run over that asked for all its batches and used up the tries
\* on the last of them
C19_AllBatchesAllTries ==
    /\ pc = "done" /\ exhausted /\ asked >= 200
    /\ Len(requests) = asked \div 100 + 1

====
